---------------------------- MODULE Spec2Model ----------------------------
(***************************************************************************)
(* A model of src/main.py: the CoinMarketCap scraper.                      *)
(*                                                                         *)
(*   write_cmc_top()  =  get_html() ; get_content(html_text) ; write file  *)
(*                                                                         *)
(* A str is the sequence of its code points.  A float is a binary64: the   *)
(* arithmetic of get_content and float() round to nearest, ties to even,   *)
(* as the interpreter does.  The markup is modelled by what BeautifulSoup  *)
(* finds in it: whether there is a tbody, and the texts of the two lists   *)
(* of tags that find_all returns.  The file is the rows that the csv       *)
(* writer hands to the file object, encoded as UTF-8, and the rows that    *)
(* are on the disk once the file object is closed.                         *)
(***************************************************************************)
EXTENDS Integers, Sequences, FiniteSets

VARIABLES
    pc,                 \* position in write_cmc_top / get_html / get_content
    session,            \* the Edge session: "none", "open", "closed"
    i,                  \* get_html: the scroll loop counter
    events,             \* get_html: the calls made on the browser and the clock
    html_text,          \* the captured page, NoHtml before the capture
    coin_name_tags,     \* get_content: texts of the name tags
    capitalization_tags,\* get_content: texts of the capitalization tags
    total_market_cap,   \* get_content: the running total
    coins_info,         \* get_content: the records (name, cap, percentage)
    idx,                \* position of the running for loop
    file,               \* the output file
    fault               \* "none", or the exception that ended the run

vars == <<pc, session, i, events, html_text, coin_name_tags,
          capitalization_tags, total_market_cap, coins_info, idx, file, fault>>

---------------------------------------------------------------------------
(* Bounds of the model *)

MaxNames == 3
MaxCaps == 3

(* Program constants *)

ScrollsLessOne == 10 - 1

\* range(10)
ScrollCount == 10

---------------------------------------------------------------------------
(* Natural numbers of any size: the limbs, least significant first, no     *)
(* leading zero limb.  Every intermediate value stays below 2^31.           *)
LimbBits == 15

Base == 2^LimbBits

SetMax(S) == CHOOSE x \in S : \A y \in S : y <= x

SetMin(S) == CHOOSE x \in S : \A y \in S : x <= y

BNorm(a) ==
    LET nz == {k \in 1..Len(a) : a[k] # 0}
    IN  IF nz = {} THEN <<>> ELSE SubSeq(a, 1, SetMax(nz))

BFromInt(n) ==
    IF n = 0 THEN <<>>
    ELSE IF n < Base THEN <<n>>
    ELSE IF n < Base * Base THEN <<n % Base, n \div Base>>
    ELSE <<n % Base, (n \div Base) % Base, n \div (Base * Base)>>

\* for a below 2^30
BToInt(a) ==
    IF a = <<>> THEN 0 ELSE IF Len(a) = 1 THEN a[1] ELSE a[1] + Base * a[2]

Limb(a, k) == IF k >= 1 /\ k <= Len(a) THEN a[k] ELSE 0

\* a + b; the carry into limb k is found by looking back for the limb that
\* produced it
BAdd(a, b) ==
    LET n == IF Len(a) > Len(b) THEN Len(a) ELSE Len(b)
        s == [k \in 1..(n + 1) |-> Limb(a, k) + Limb(b, k)]
        carry(k) == \E j \in 1..(k - 1) :
                        /\ s[j] >= Base
                        /\ \A l \in (j + 1)..(k - 1) : s[l] = Base - 1
    IN  BNorm([k \in 1..(n + 1) |-> (s[k] + (IF carry(k) THEN 1 ELSE 0)) % Base])

\* a - b, for a >= b
BSub(a, b) ==
    LET borrow(k) == \E j \in 1..(k - 1) :
                         /\ a[j] < Limb(b, j)
                         /\ \A l \in (j + 1)..(k - 1) : a[l] = Limb(b, l)
    IN  BNorm([k \in 1..Len(a) |->
                 (a[k] - Limb(b, k) - (IF borrow(k) THEN 1 ELSE 0) + Base) % Base])

\* -1, 0, 1
BCmp(a, b) ==
    IF Len(a) # Len(b) THEN (IF Len(a) < Len(b) THEN 0 - 1 ELSE 1)
    ELSE LET d == {k \in 1..Len(a) : a[k] # b[k]}
         IN  IF d = {} THEN 0
             ELSE IF a[SetMax(d)] < b[SetMax(d)] THEN 0 - 1 ELSE 1

\* the number whose limb k is c[k], for c[k] < 2^30
BCarry(c) ==
    BAdd([k \in 1..Len(c) |-> c[k] % Base],
         <<0>> \o [k \in 1..Len(c) |-> c[k] \div Base])

\* a * n, for n <= Base
BMulSmall(a, n) == BCarry([k \in 1..Len(a) |-> a[k] * n])

\* f[lo] + ... + f[hi], by halves
RECURSIVE SumOver(_, _, _)
SumOver(f, lo, hi) ==
    IF lo > hi THEN 0
    ELSE IF lo = hi THEN f[lo]
    ELSE LET mid == (lo + hi) \div 2
         IN  SumOver(f, lo, mid) + SumOver(f, mid + 1, hi)

\* a * b by columns: the low and the high halves of the limb products are
\* added up apart
BMul(a, b) ==
    LET s == IF Len(a) <= Len(b) THEN a ELSE b
        l == IF Len(a) <= Len(b) THEN b ELSE a
        n == Len(s) + Len(l)
        lo(k) == SumOver([j \in 1..Len(s) |-> (s[j] * Limb(l, k + 1 - j)) % Base], 1, Len(s))
        hi(k) == SumOver([j \in 1..Len(s) |-> (s[j] * Limb(l, k + 1 - j)) \div Base], 1, Len(s))
    IN  IF s = <<>> THEN <<>>
        ELSE BAdd(BCarry([k \in 1..n |-> lo(k)]),
                  <<0>> \o BCarry([k \in 1..n |-> hi(k)]))

\* a * 2^n
BShl(a, n) ==
    LET w == n \div LimbBits
        u == n % LimbBits
    IN  IF a = <<>> THEN a
        ELSE [k \in 1..w |-> 0]
             \o BNorm([k \in 1..(Len(a) + 1) |->
                         (Limb(a, k) % 2^(LimbBits - u)) * 2^u
                         + Limb(a, k - 1) \div 2^(LimbBits - u)])

\* a \div 2^n
BShr(a, n) ==
    LET w == n \div LimbBits
        u == n % LimbBits
        hi == IF w >= Len(a) THEN <<>> ELSE SubSeq(a, w + 1, Len(a))
    IN  BNorm([k \in 1..Len(hi) |->
                 hi[k] \div 2^u + (Limb(hi, k + 1) % 2^u) * 2^(LimbBits - u)])

RECURSIVE IntBitLen(_)
IntBitLen(n) == IF n = 0 THEN 0 ELSE 1 + IntBitLen(n \div 2)

BBitLen(a) == IF a = <<>> THEN 0 ELSE LimbBits * (Len(a) - 1) + IntBitLen(a[Len(a)])

RECURSIVE IntTrailingZeros(_)
IntTrailingZeros(n) == IF n % 2 = 1 THEN 0 ELSE 1 + IntTrailingZeros(n \div 2)

\* for a > 0
BTrailingZeros(a) ==
    LET k == SetMin({j \in 1..Len(a) : a[j] # 0})
    IN  LimbBits * (k - 1) + IntTrailingZeros(a[k])

BIsOdd(a) == a # <<>> /\ a[1] % 2 = 1

\* The leading (at most n) bits of a, n <= 30, and the number of bits left out.
BTop(a, n) ==
    LET cut == IF BBitLen(a) > n THEN BBitLen(a) - n ELSE 0
    IN  [top |-> BToInt(BShr(a, cut)), cut |-> cut]

\* A number t with 1 <= t <= r \div b near r \div b, from the leading bits
\* rt of r and bt of b, for r >= b > 0.
BQuotientFrom(rt, bt) ==
    LET d == IF bt.cut = 0 THEN bt.top ELSE bt.top + 1
        t == IF rt.cut >= bt.cut
             THEN BShl(BFromInt(rt.top \div d), rt.cut - bt.cut)
             ELSE IF bt.cut - rt.cut > 30 THEN <<>>
             ELSE BFromInt((rt.top \div d) \div 2^(bt.cut - rt.cut))
    IN  IF t = <<>> THEN <<1>> ELSE t

BQuotientBelow(r, b) == BQuotientFrom(BTop(r, 30), BTop(b, LimbBits))

\* Long division: t goes from the remainder r to the quotient q until r < b.
RECURSIVE BDivModFrom(_, _, _)
BDivModStep(r, b, q, t) == BDivModFrom(BSub(r, BMul(t, b)), b, BAdd(q, t))

BDivModFrom(r, b, q) ==
    IF BCmp(r, b) < 0 THEN [q |-> q, r |-> r]
    ELSE BDivModStep(r, b, q, BQuotientBelow(r, b))

\* quotient and remainder of a by b > 0
BDivMod(a, b) == BDivModFrom(a, b, <<>>)

BSquare(a) == BMul(a, a)

\* 10^n, by squaring
RECURSIVE BPow10(_)
BPow10(n) ==
    IF n < 5 THEN <<10^n>>
    ELSE IF n % 2 = 0 THEN BSquare(BPow10(n \div 2))
    ELSE BMulSmall(BSquare(BPow10(n \div 2)), 10)

---------------------------------------------------------------------------
(* binary64: a finite value is (-1)^s * m * 2^e with m odd, or m = 0, e = 0 *)

MantissaBits == 53

\* the exponent of the least bit of a subnormal
MinExp == 0 - 1074

\* every finite double is below 2^MaxBits
MaxBits == 1024

FZero(s) == [k |-> "fin", s |-> s, m |-> <<>>, e |-> 0]

FInf(s) == [k |-> "inf", s |-> s, m |-> <<>>, e |-> 0]

FNaN == [k |-> "nan", s |-> 0, m |-> <<>>, e |-> 0]

FOdd(s, n, e, tz) == [k |-> "fin", s |-> s, m |-> BShr(n, tz), e |-> e + tz]

\* (-1)^s * n * 2^e for a value that needs no rounding
FExact(s, n, e) ==
    IF n = <<>> THEN FZero(s) ELSE FOdd(s, n, e, BTrailingZeros(n))

\* (-1)^s * q * 2^e once q is rounded
RoundDone(s, q, e) ==
    IF q = <<>> THEN FZero(s)
    ELSE IF BBitLen(q) + e > MaxBits THEN FInf(s)
    ELSE FExact(s, q, e)

\* ties to even: half is the comparison of the remainder with half a unit
RoundUp(s, q, e, half) ==
    RoundDone(s, IF half > 0 \/ (half = 0 /\ BIsOdd(q)) THEN BAdd(q, <<1>>) ELSE q, e)

\* The double nearest to (-1)^s * (q + r / d) * 2^e, for r < d and q of at
\* most MantissaBits bits.
RoundHalf(s, q, r, d, e) == RoundUp(s, q, e, BCmp(BMulSmall(r, 2), d))

\* The same for q of at most MantissaBits + 1 bits, where e >= MinExp and
\* q has fewer than MantissaBits bits only if e = MinExp.
RoundParts(s, q, r, d, e) ==
    IF BBitLen(q) > MantissaBits
    THEN RoundHalf(s, BShr(q, 1), IF BIsOdd(q) THEN BAdd(r, d) ELSE r,
                   BMulSmall(d, 2), e + 1)
    ELSE RoundHalf(s, q, r, d, e)

RoundQuotient(s, qr, d, e) == RoundParts(s, qr.q, qr.r, d, e)

\* the exponent of the last bit kept of a value whose leading bit is at top
ExpFor(top) == IF top - MantissaBits < MinExp THEN MinExp ELSE top - MantissaBits

\* (-1)^s * (p / q) * 2^e rounded at the bit of exponent e2
RoundRatAt(s, p, q, e, e2) ==
    IF e2 + MantissaBits > MaxBits + 1 THEN FInf(s)
    ELSE IF BBitLen(p) - BBitLen(q) + e - e2 < 0 - 1 THEN FZero(s)
    ELSE IF e > e2 THEN RoundQuotient(s, BDivMod(BShl(p, e - e2), q), q, e2)
    ELSE RoundQuotient(s, BDivMod(p, BShl(q, e2 - e)), BShl(q, e2 - e), e2)

\* The double nearest to (-1)^s * (p / q) * 2^e, for q > 0.
RoundRatE(s, p, q, e) ==
    IF p = <<>> THEN FZero(s)
    ELSE RoundRatAt(s, p, q, e, ExpFor(BBitLen(p) - BBitLen(q) + e))

RoundRat(s, p, q) == RoundRatE(s, p, q, 0)

IsDouble(x) ==
    /\ BBitLen(x.m) <= MantissaBits
    /\ x.e >= MinExp
    /\ BBitLen(x.m) + x.e <= MaxBits

RoundShifted(s, n, q, sh, e2) ==
    RoundParts(s, q, BSub(n, BShl(q, sh)), BShl(<<1>>, sh), e2)

\* (-1)^s * n * 2^e rounded at the bit of exponent e2 > e
RoundDyadicAt(s, n, e, e2) ==
    IF e2 + MantissaBits > MaxBits THEN FInf(s)
    ELSE IF BBitLen(n) + e - e2 < 0 - 1 THEN FZero(s)
    ELSE RoundShifted(s, n, BShr(n, e2 - e), e2 - e, e2)

RoundInexact(s, n, e, x) ==
    IF IsDouble(x) THEN x ELSE RoundDyadicAt(s, n, e, ExpFor(BBitLen(n) + e))

\* The double nearest to (-1)^s * n * 2^e.
RoundDyadic(s, n, e) ==
    IF n = <<>> THEN FZero(s) ELSE RoundInexact(s, n, e, FExact(s, n, e))

FIsZero(x) == x.k = "fin" /\ x.m = <<>>

FNeg(x) == IF x.k = "nan" THEN x ELSE [x EXCEPT !.s = 1 - x.s]

\* the position of the leading bit of a finite x # 0
FTop(x) == BBitLen(x.m) + x.e

\* the smaller term of a sum is lost in the rounding when the leading bits
\* are further apart than this
FarApart == MantissaBits + 3

\* the sum of (-1)^xs * a * 2^e and (-1)^ys * b * 2^e, c the comparison of
\* a with b
FAddSigned(xs, a, ys, b, e, c) ==
    IF xs = ys THEN RoundDyadic(xs, BAdd(a, b), e)
    ELSE IF c = 0 THEN FZero(0)
    ELSE IF c > 0 THEN RoundDyadic(xs, BSub(a, b), e)
    ELSE RoundDyadic(ys, BSub(b, a), e)

FAddAligned(xs, a, ys, b, e) == FAddSigned(xs, a, ys, b, e, BCmp(a, b))

FAddAt(x, y, e) == FAddAligned(x.s, BShl(x.m, x.e - e), y.s, BShl(y.m, y.e - e), e)

\* x + y
FAdd(x, y) ==
    IF x.k = "nan" \/ y.k = "nan" THEN FNaN
    ELSE IF x.k = "inf" THEN (IF y.k = "inf" /\ y.s # x.s THEN FNaN ELSE x)
    ELSE IF y.k = "inf" THEN y
    ELSE IF FIsZero(x)
    THEN (IF FIsZero(y) THEN FZero(IF x.s = 1 /\ y.s = 1 THEN 1 ELSE 0) ELSE y)
    ELSE IF FIsZero(y) THEN x
    ELSE IF FTop(x) - FTop(y) > FarApart THEN x
    ELSE IF FTop(y) - FTop(x) > FarApart THEN y
    ELSE FAddAt(x, y, IF x.e < y.e THEN x.e ELSE y.e)

\* x * y
FMul(x, y) ==
    IF x.k = "nan" \/ y.k = "nan" THEN FNaN
    ELSE IF x.k = "inf" \/ y.k = "inf"
    THEN (IF FIsZero(x) \/ FIsZero(y) THEN FNaN ELSE FInf((x.s + y.s) % 2))
    ELSE IF FIsZero(x) \/ FIsZero(y) THEN FZero((x.s + y.s) % 2)
    ELSE RoundDyadic((x.s + y.s) % 2, BMul(x.m, y.m), x.e + y.e)

\* x / y, for y # 0
FDiv(x, y) ==
    IF x.k = "nan" \/ y.k = "nan" THEN FNaN
    ELSE IF x.k = "inf" THEN (IF y.k = "inf" THEN FNaN ELSE FInf((x.s + y.s) % 2))
    ELSE IF y.k = "inf" THEN FZero((x.s + y.s) % 2)
    ELSE IF FIsZero(x) THEN FZero((x.s + y.s) % 2)
    ELSE RoundRatE((x.s + y.s) % 2, x.m, y.m, x.e - y.e)

---------------------------------------------------------------------------
(* Text: a str is the sequence of its code points *)

\* The ASCII characters from the space (32) to the tilde (126); the two that
\* a string of the model cannot hold stand under their names.
Printable ==
    << " ", "!", "\"", "#", "$", "%", "&", "'", "(", ")", "*", "+", ",", "-",
       ".", "/", "0", "1", "2", "3", "4", "5", "6", "7", "8", "9", ":", ";",
       "<", "=", ">", "?", "@", "A", "B", "C", "D", "E", "F", "G", "H", "I",
       "J", "K", "L", "M", "N", "O", "P", "Q", "R", "S", "T", "U", "V", "W",
       "X", "Y", "Z", "[", "backslash", "]", "^", "_", "backtick", "a", "b",
       "c", "d", "e", "f", "g", "h", "i", "j", "k", "l", "m", "n", "o", "p",
       "q", "r", "s", "t", "u", "v", "w", "x", "y", "z", "{", "|", "}", "~" >>

\* ord(c)
Ord(c) ==
    IF c = "\t" THEN 9
    ELSE IF c = "\n" THEN 10
    ELSE IF c = "\r" THEN 13
    ELSE 31 + (CHOOSE n \in 1..Len(Printable) : Printable[n] = c)

\* the str written with the characters of s
Str(s) == [k \in 1..Len(s) |-> Ord(s[k])]

\* str.isspace(): what str.strip() removes
Whitespace ==
    {9, 10, 11, 12, 13, 28, 29, 30, 31, 32, 133, 160, 5760}
    \cup (8192..8202) \cup {8232, 8233, 8239, 8287, 12288}

\* str.lstrip()
LStrip(s) ==
    LET keep == {k \in 1..Len(s) : s[k] \notin Whitespace}
    IN  IF keep = {} THEN <<>> ELSE SubSeq(s, SetMin(keep), Len(s))

\* str.rstrip()
RStrip(s) ==
    LET keep == {k \in 1..Len(s) : s[k] \notin Whitespace}
    IN  IF keep = {} THEN <<>> ELSE SubSeq(s, 1, SetMax(keep))

\* str.strip()
Strip(s) == RStrip(LStrip(s))

\* A replacement of the first occurrence only.
ReplaceFirst(s, old, new) ==
    LET at == {k \in 1..Len(s) : s[k] = old}
    IN  IF at = {} THEN s
        ELSE SubSeq(s, 1, SetMin(at) - 1) \o new \o SubSeq(s, SetMin(at) + 1, Len(s))

\* str.replace(old, new) for a one-character old: every occurrence.
RECURSIVE Replace(_, _, _)
Replace(s, old, new) ==
    IF s = <<>> THEN <<>>
    ELSE (IF Head(s) = old THEN new ELSE <<Head(s)>>) \o Replace(Tail(s), old, new)

---------------------------------------------------------------------------
(* float(str) *)

\* The code points of the digit zero of every decimal digit system (Unicode
\* category Nd); the digits 1 to 9 of a system follow its zero.
DigitZeros ==
    {48, 1632, 1776, 1984, 2406, 2534, 2662, 2790, 2918, 3046, 3174, 3302,
     3430, 3558, 3664, 3792, 3872, 4160, 4240, 6112, 6160, 6470, 6608, 6784,
     6800, 6992, 7088, 7232, 7248, 42528, 43216, 43264, 43472, 43504, 43600,
     44016, 65296, 66720, 68912, 69734, 69872, 69942, 70096, 70384, 70736,
     70864, 71248, 71360, 71472, 71904, 72016, 72784, 73040, 73120, 92768,
     92864, 93008, 120782, 120792, 120802, 120812, 120822, 123200, 123632,
     125264, 130032}

IsDecimal(c) == \E z \in DigitZeros : z <= c /\ c <= z + 9

DecimalOf(c) == c - (CHOOSE z \in DigitZeros : z <= c /\ c <= z + 9)

\* What float() makes of a character before it parses: a decimal digit of
\* any system is its ASCII digit, white space outside ASCII is a space, any
\* other character outside ASCII is one that no number holds.
ToAscii(c) ==
    IF c < 128 THEN c
    ELSE IF c \in Whitespace THEN 32
    ELSE IF IsDecimal(c) THEN 48 + DecimalOf(c)
    ELSE 63

\* the white space of the C locale, which float() strips
AsciiSpace == {9, 10, 11, 12, 13, 32}

AsciiStrip(s) ==
    LET keep == {k \in 1..Len(s) : s[k] \notin AsciiSpace}
    IN  IF keep = {} THEN <<>> ELSE SubSeq(s, SetMin(keep), SetMax(keep))

IsDigit(c) == 48 <= c /\ c <= 57

\* An underscore is allowed between two digits only.
UnderscoresOk(s) ==
    \A k \in 1..Len(s) :
        s[k] = 95 => /\ k > 1 /\ IsDigit(s[k - 1])
                     /\ k < Len(s) /\ IsDigit(s[k + 1])

Lower(c) == IF 65 <= c /\ c <= 90 THEN c + 32 ELSE c

\* the number of digits of s from position k on
DigitRun(s, k) == SetMin({j \in k..(Len(s) + 1) : j > Len(s) \/ ~IsDigit(s[j])}) - k

\* the value of at most nine digits
RECURSIVE IntOf(_)
IntOf(ds) ==
    IF ds = <<>> THEN 0
    ELSE IntOf(SubSeq(ds, 1, Len(ds) - 1)) * 10 + (ds[Len(ds)] - 48)

\* the number written with the digits ds, by halves
RECURSIVE BFromDigits(_)
BFromDigits(ds) ==
    IF Len(ds) <= 4 THEN BFromInt(IntOf(ds))
    ELSE LET h == Len(ds) \div 2
         IN  BAdd(BMul(BFromDigits(SubSeq(ds, 1, Len(ds) - h)), BPow10(h)),
                  BFromDigits(SubSeq(ds, Len(ds) - h + 1, Len(ds))))

\* the position of the first digit of ds that is not 0, Len(ds) + 1 if none
FirstNonZero(ds) == SetMin({Len(ds) + 1} \cup {k \in 1..Len(ds) : ds[k] # 48})

\* the position of the last digit of ds that is not 0, 0 if none
LastNonZero(ds) == SetMax({0} \cup {k \in 1..Len(ds) : ds[k] # 48})

\* the digits of ds from the first that is not 0
SkipZeros(ds) == SubSeq(ds, FirstNonZero(ds), Len(ds))

\* The exponent that float() takes when the digits of the exponent, leading
\* zeros aside, are more than nine (MAX_ABS_EXP of the parser).
MaxAbsExp == 1100000000

\* The most digits that float() reads, leading zeros aside, and the most
\* digits after the point (MAX_DIGITS of the parser).
MaxDigits == 1000000000

\* the value of the digits of an exponent, as float() reads them: in full
\* when at most nine digits follow the leading zeros, MaxAbsExp otherwise
ExpOf(ds) ==
    IF Len(ds) - FirstNonZero(ds) + 1 > 9 THEN MaxAbsExp ELSE IntOf(SkipZeros(ds))

\* 10^x is beyond every double for x above this, and below half the least
\* double for x below its opposite
DecimalRange == 400

\* The double nearest to (-1)^s * d * 10^x, for d of at most nd digits.
FromDecimal(s, d, x, nd) ==
    IF d = <<>> THEN FZero(s)
    ELSE IF x > DecimalRange THEN FInf(s)
    ELSE IF x < 0 - (DecimalRange + nd) THEN FZero(s)
    ELSE IF x >= 0 THEN RoundDyadic(s, BMul(d, BPow10(x)), 0)
    ELSE RoundRat(s, d, BPow10(0 - x))

NotAFloat == [ok |-> FALSE, val |-> FZero(0)]

\* the value of the digits ds scaled by 10^x: the zeros at the front are
\* dropped, those at the end are counted in the exponent
FloatValue(sgn, ds, x) ==
    [ok |-> TRUE,
     val |-> FromDecimal(sgn, BFromDigits(SubSeq(ds, FirstNonZero(ds), LastNonZero(ds))),
                         x + (Len(ds) - LastNonZero(ds)), LastNonZero(ds))]

\* the digits of the exponent, from position q + 1 to the end of b
FloatExpDigits(sgn, b, ds, nf, esgn, q) ==
    IF q = Len(b) \/ DigitRun(b, q + 1) # Len(b) - q THEN NotAFloat
    ELSE FloatValue(sgn, ds, esgn * ExpOf(SubSeq(b, q + 1, Len(b))) - nf)

\* what follows the mantissa, which ends at position p of b: nothing, or
\* "e" or "E", a sign or none, and digits; a mantissa of more than MaxDigits
\* digits is not read
FloatExponent(sgn, b, ds, nf, p) ==
    IF ds = <<>> THEN NotAFloat
    ELSE IF Len(ds) - FirstNonZero(ds) + 1 > MaxDigits \/ nf > MaxDigits THEN NotAFloat
    ELSE IF p = Len(b) THEN FloatValue(sgn, ds, 0 - nf)
    ELSE IF b[p + 1] \notin {69, 101} THEN NotAFloat
    ELSE IF p + 1 < Len(b) /\ b[p + 2] \in {43, 45}
    THEN FloatExpDigits(sgn, b, ds, nf, IF b[p + 2] = 45 THEN 0 - 1 ELSE 1, p + 2)
    ELSE FloatExpDigits(sgn, b, ds, nf, 1, p + 1)

\* the digits after the point, which is at position ni + 1
FloatFraction(sgn, b, ni, nf) ==
    FloatExponent(sgn, b, SubSeq(b, 1, ni) \o SubSeq(b, ni + 2, ni + 1 + nf),
                  nf, ni + 1 + nf)

\* digits, a point or none, digits
FloatMantissa(sgn, b, ni) ==
    IF ni < Len(b) /\ b[ni + 1] = 46
    THEN FloatFraction(sgn, b, ni, DigitRun(b, ni + 2))
    ELSE FloatExponent(sgn, b, SubSeq(b, 1, ni), 0, ni)

Infinities == {Str(<<"i", "n", "f">>),
               Str(<<"i", "n", "f", "i", "n", "i", "t", "y">>)}

\* "inf", "infinity" or "nan" in any case, or a number
FloatWord(sgn, b, word) ==
    IF word \in Infinities THEN [ok |-> TRUE, val |-> FInf(sgn)]
    ELSE IF word = Str(<<"n", "a", "n">>) THEN [ok |-> TRUE, val |-> FNaN]
    ELSE FloatMantissa(sgn, b, DigitRun(b, 1))

FloatBody(sgn, b) == FloatWord(sgn, b, [k \in 1..Len(b) |-> Lower(b[k])])

\* a sign or none
FloatSigned(t) ==
    IF t # <<>> /\ t[1] \in {43, 45}
    THEN FloatBody(IF t[1] = 45 THEN 1 ELSE 0, Tail(t))
    ELSE FloatBody(0, t)

FloatAscii(a) ==
    IF ~UnderscoresOk(a) THEN NotAFloat
    ELSE FloatSigned(AsciiStrip(SelectSeq(a, LAMBDA c : c # 95)))

\* float(s): the value, or ok = FALSE where float raises ValueError.
Float(s) == FloatAscii([k \in 1..Len(s) |-> ToAscii(s[k])])

---------------------------------------------------------------------------
(* The pages the browser may show *)

\* the no-break space
Nbsp == 160

\* the information separator four, white space for str.strip() only
FileSeparator == 28

\* half of a surrogate pair on its own
LoneSurrogate == 56448

\* Arabic-Indic digits
ArabicZero == 1632

ArabicOne == 1633

\* the bitcoin sign, three bytes of UTF-8
BitcoinSign == 8383

\* Names as the page lists them: the k-th of a page is the k-th of the cycle.
NameCycle ==
    << Str(<<"B", "T", "C">>),
       <<13, 32>> \o Str(<<"E", "T", "H">>) \o <<Nbsp>>,
       <<BitcoinSign>> \o Str(<<"S", "V">>) >>

NameList(n) == [k \in 1..n |-> NameCycle[((k - 1) % Len(NameCycle)) + 1]]

\* Names that the csv writer has to quote, and one that UTF-8 cannot encode.
CsvNames ==
    { Str(<<"A", ";", "B">>),
      Str(<<"\"", "h", "i", "\"">>),
      Str(<<"x", "\n", "y">>),
      <<LoneSurrogate>> \o Str(<<"b", "a", "d">>) }

PlainCaps ==
    { Str(<<"$", "1", "0", "0">>),
      <<13, 10, 32>> \o Str(<<"$", "3", "0", "0">>) \o <<Nbsp>>,
      Str(<<"$", "6", "0", "0">>),
      Str(<<"$", "0">>),
      Str(<<"-", "-">>) }

\* Texts that float() reads by the rules of its grammar.
GrammarCaps ==
    { Str(<<"$", "1", ",", "0", "0", "0", ",", "0", "0", "0", ".", "5">>),
      Str(<<"1", "e", "3">>),
      Str(<<"1", "_", "0", "0", "0">>),
      Str(<<"i", "n", "f">>),
      Str(<<"n", "a", "n">>),
      <<ArabicOne, ArabicZero, ArabicZero>>,
      Str(<<"$">>) \o <<FileSeparator>> \o Str(<<"7">>) }

\* Amounts of both signs, whose sum is rounded to a double near it or to
\* zero.
RoundingCaps ==
    { Str(<<"0", ".", "1">>),
      Str(<<"0", ".", "2">>),
      Str(<<"-", "0", ".", "3">>),
      Str(<<"1", "e", "1", "6">>),
      Str(<<"-", "1", "e", "1", "6">>) }

\* Amounts at the ends of the range of the doubles: one near the largest,
\* two of which have a sum that is rounded to infinity, and the least one
\* above zero.
ExtremeCaps ==
    { Str(<<"9", "e", "3", "0", "7">>),
      Str(<<"5", "e", "-", "3", "2", "4">>) }

SeqsUpTo(S, n) == UNION {[1..m -> S] : m \in 0..n}

Min(a, b) == IF a < b THEN a ELSE b

\* The lists of one or two extreme amounts: two are enough for their sum to
\* be rounded to infinity, or for one of them to vanish beside the other.
ExtremeLists ==
    {cs \in {<<a>> : a \in ExtremeCaps} \cup (ExtremeCaps \X ExtremeCaps) :
        Len(cs) <= MaxCaps}

NoHtml == [tbody |-> FALSE, names |-> <<>>, caps |-> <<>>]

\* Every page has at most MaxNames names and MaxCaps capitalizations.
Pages ==
    {[tbody |-> FALSE, names |-> <<>>, caps |-> <<>>]}
    \cup {[tbody |-> TRUE, names |-> NameList(n), caps |-> cs] :
            n \in 0..MaxNames, cs \in SeqsUpTo(PlainCaps, MaxCaps)}
    \cup {[tbody |-> TRUE, names |-> NameList(Min(Len(cs), MaxNames)), caps |-> cs] :
            cs \in SeqsUpTo(GrammarCaps, MaxCaps) \cup SeqsUpTo(RoundingCaps, MaxCaps)
                   \cup ExtremeLists}
    \cup {[tbody |-> TRUE, names |-> ns,
           caps |-> [k \in 1..Min(Len(ns), MaxCaps) |-> Str(<<"$", "1", "0", "0">>)]] :
            ns \in SeqsUpTo(CsvNames, MaxNames)}

NoFile == [exists |-> FALSE, open |-> FALSE, written |-> <<>>, disk |-> <<>>,
           torn |-> FALSE]

Init ==
    /\ pc = "start"
    /\ session = "none"
    /\ i = 0
    /\ events = <<>>
    /\ html_text = NoHtml
    /\ coin_name_tags = <<>>
    /\ capitalization_tags = <<>>
    /\ total_market_cap = FZero(0)
    /\ coins_info = <<>>
    /\ idx = 0
    /\ file = NoFile
    /\ fault = "none"

\* An exception that is caught and dropped: the run ends as if it had succeeded.
Swallow(e) ==
    /\ pc' = "done"
    /\ fault' = e

\* An uncaught exception: the process ends where it stands.
Raise(e) ==
    /\ pc' = "fault"
    /\ fault' = e

---------------------------------------------------------------------------
(* get_html *)

get_content_vars == <<coin_name_tags, capitalization_tags, total_market_cap,
                      coins_info, idx>>

\* edge = webdriver.Edge()
Launch ==
    /\ pc = "start"
    /\ \/ /\ session' = "open"
          /\ events' = Append(events, "launch")
          /\ pc' = "get"
          /\ UNCHANGED fault
       \/ /\ Raise("WebDriverException")
          /\ UNCHANGED <<session, events>>
    /\ UNCHANGED <<i, html_text, get_content_vars, file>>

\* edge.get(URL)
Navigate ==
    /\ pc = "get"
    /\ \/ /\ events' = Append(events, "get")
          /\ pc' = "scroll"
          /\ i' = 0
          /\ UNCHANGED fault
       \/ /\ Raise("WebDriverException")
          /\ UNCHANGED <<events, i>>
    /\ UNCHANGED <<session, html_text, get_content_vars, file>>

\* for i in range(10): edge.execute_script('window.scrollBy(...)')
Scroll ==
    /\ pc = "scroll"
    /\ i < ScrollCount
    /\ \/ /\ events' = Append(events, "scroll")
          /\ pc' = "sleep"
          /\ UNCHANGED fault
       \/ /\ Raise("WebDriverException")
          /\ UNCHANGED events
    /\ UNCHANGED <<session, i, html_text, get_content_vars, file>>

\* time.sleep(1), and the loop's step
Sleep ==
    /\ pc = "sleep"
    /\ events' = Append(events, "sleep")
    /\ i' = i + 1
    /\ pc' = "scroll"
    /\ UNCHANGED <<session, html_text, get_content_vars, file, fault>>

\* html_text = edge.page_source, once the loop is exhausted
Capture ==
    /\ pc = "scroll"
    /\ i >= ScrollCount
    /\ \/ /\ \E page \in Pages : html_text' = page
          /\ events' = Append(events, "page_source")
          /\ pc' = "quit"
          /\ UNCHANGED fault
       \/ /\ Raise("WebDriverException")
          /\ UNCHANGED <<events, html_text>>
    /\ UNCHANGED <<session, i, get_content_vars, file>>

\* edge.quit(); return html_text
Quit ==
    /\ pc = "quit"
    /\ session' = "closed"
    /\ events' = Append(events, "quit")
    /\ pc' = "get_content"
    /\ UNCHANGED <<i, html_text, get_content_vars, file, fault>>

---------------------------------------------------------------------------
(* get_content *)

Dollar == Ord("$")

Thousands == Ord(",")

\* cap_str = cap_tag.text.strip().replace('$', '').replace(',', '')
cap_str(cap_tag) == Replace(Replace(Strip(cap_tag), Dollar, <<>>), Thousands, <<>>)

\* the same expression again, inside float(...) of the second loop
coin_cap_str(cap_tag) == Replace(Replace(Strip(cap_tag), Dollar, <<>>), Thousands, <<>>)

\* A pairing that stops one short.
ZipShort(names, caps) == Min(Len(names), Len(caps)) - 1

\* zip(coin_name_tags, capitalization_tags) stops with the shorter list
ZipLen(names, caps) == Min(Len(names), Len(caps))

\* 100, which the multiplication takes as a float
Hundred == FExact(0, <<100>>, 0)

\* A percentage that is left a fraction of 1.
market_fraction(coin_cap, total) == FDiv(coin_cap, total)

\* market_percentage = (coin_cap / total_market_cap) * 100
market_percentage(coin_cap, total) == FMul(FDiv(coin_cap, total), Hundred)

\* An assignment where the code accumulates.
assign_total(total, cap) == cap

\* total_market_cap += float(cap_str)
add_to_total(total, cap) == FAdd(total, cap)

\* An insertion at the front of the list.
prepend(list, item) == <<item>> \o list

\* coins_info.append(item)
append(list, item) == Append(list, item)

\* soup.find('tbody'), the two find_all, coins_info = [], total_market_cap = 0
FindTags ==
    /\ pc = "get_content"
    /\ IF html_text.tbody
       THEN /\ coin_name_tags' = html_text.names
            /\ capitalization_tags' = html_text.caps
            /\ coins_info' = <<>>
            /\ total_market_cap' = FZero(0)
            /\ idx' = 0
            /\ pc' = "sum"
            /\ UNCHANGED fault
       ELSE /\ Raise("AttributeError")
            /\ UNCHANGED get_content_vars
    /\ UNCHANGED <<session, i, events, html_text, file>>

\* total_market_cap += float(cap_str), where float may raise
AddCap(f) ==
    IF f.ok
    THEN /\ total_market_cap' = add_to_total(total_market_cap, f.val)
         /\ idx' = idx + 1
         /\ UNCHANGED <<pc, fault>>
    ELSE /\ Raise("ValueError")
         /\ UNCHANGED <<total_market_cap, idx>>

\* for cap_tag in capitalization_tags: total_market_cap += float(cap_str)
SumStep ==
    /\ pc = "sum"
    /\ idx < Len(capitalization_tags)
    /\ AddCap(Float(cap_str(capitalization_tags[idx + 1])))
    /\ UNCHANGED <<session, i, events, html_text, coin_name_tags,
                   capitalization_tags, coins_info, file>>

\* the first loop is exhausted: the second one starts
SumDone ==
    /\ pc = "sum"
    /\ idx >= Len(capitalization_tags)
    /\ pc' = "pair"
    /\ idx' = 0
    /\ UNCHANGED <<session, i, events, html_text, coin_name_tags,
                   capitalization_tags, total_market_cap, coins_info, file, fault>>

\* the body of the second loop; a float division by a zero of either sign
\* raises
AddRecord(coin_name, coin_cap) ==
    IF ~coin_cap.ok
    THEN /\ Raise("ValueError")
         /\ UNCHANGED <<coins_info, idx>>
    ELSE IF FIsZero(total_market_cap)
    THEN /\ Raise("ZeroDivisionError")
         /\ UNCHANGED <<coins_info, idx>>
    ELSE /\ coins_info' = append(coins_info,
                <<coin_name, coin_cap.val,
                  market_percentage(coin_cap.val, total_market_cap)>>)
         /\ idx' = idx + 1
         /\ UNCHANGED <<pc, fault>>

\* for name_tag, cap_tag in zip(...): one record
PairStep ==
    /\ pc = "pair"
    /\ idx < ZipLen(coin_name_tags, capitalization_tags)
    /\ AddRecord(Strip(coin_name_tags[idx + 1]),
                 Float(coin_cap_str(capitalization_tags[idx + 1])))
    /\ UNCHANGED <<session, i, events, html_text, coin_name_tags,
                   capitalization_tags, total_market_cap, file>>

\* return coins_info, then the timestamp and the file name
Return ==
    /\ pc = "pair"
    /\ idx >= ZipLen(coin_name_tags, capitalization_tags)
    /\ pc' = "open"
    /\ UNCHANGED <<session, i, events, html_text, get_content_vars, file, fault>>

---------------------------------------------------------------------------
(* write_cmc_top: the file *)

\* A field of a row: a str, or a float.
StrCell(s) == [t |-> "str", s |-> s, x |-> FZero(0)]

FloatCell(x) == [t |-> "float", s |-> <<>>, x |-> x]

\* What a row is made of: a character <<c>>, later a byte <<b>>, or the text
\* of a float.
Char(c) == <<c>>

\* str(x) for a float: the characters are not spelled out, the text is known
\* by the float it is the text of.  It holds ASCII characters only, at least
\* three of them, none that the csv writer quotes.
FloatText(x) ==
    <<IF x.k = "fin" THEN 0 ELSE IF x.k = "inf" THEN 1 ELSE 2, x.s, x.e>> \o x.m

IsFloatText(u) == Len(u) > 1

\* delimiter=';'
Delimiter == Ord(";")

\* the default quotechar
QuoteChar == Ord("\"")

\* the default lineterminator, "\r\n"
LineTerminator == <<13, 10>>

\* A field without the quotes that it needs.
Unquoted(s) == [k \in 1..Len(s) |-> Char(s[k])]

\* QUOTE_MINIMAL: a field that holds the delimiter, the quotechar or a
\* character of the lineterminator is put in quotes, its quotechars doubled
Quoted(s) ==
    IF \E k \in 1..Len(s) :
           s[k] = Delimiter \/ s[k] = QuoteChar
           \/ \E l \in 1..Len(LineTerminator) : s[k] = LineTerminator[l]
    THEN LET body == Replace(s, QuoteChar, <<QuoteChar, QuoteChar>>)
         IN  <<Char(QuoteChar)>> \o [k \in 1..Len(body) |-> Char(body[k])]
             \o <<Char(QuoteChar)>>
    ELSE [k \in 1..Len(s) |-> Char(s[k])]

FieldText(cell) ==
    IF cell.t = "float" THEN <<FloatText(cell.x)>> ELSE Quoted(cell.s)

RECURSIVE JoinFields(_)
JoinFields(cells) ==
    IF cells = <<>> THEN <<>>
    ELSE IF Len(cells) = 1 THEN FieldText(cells[1])
    ELSE FieldText(cells[1]) \o <<Char(Delimiter)>> \o JoinFields(Tail(cells))

\* csv.writer(file, delimiter=';').writerow(cells): the str it writes
writerow(cells) ==
    JoinFields(cells) \o [k \in 1..Len(LineTerminator) |-> Char(LineTerminator[k])]

\* the code points that are halves of surrogate pairs
Surrogates == 55296..57343

\* UTF-8 has no encoding for these texts: the write raises UnicodeEncodeError.
Unencodable(text) ==
    \E k \in 1..Len(text) : ~IsFloatText(text[k]) /\ text[k][1] \in Surrogates

\* the bytes of a code point
Utf8(c) ==
    IF c < 128 THEN <<Char(c)>>
    ELSE IF c < 2048
    THEN <<Char(192 + (c \div 64)), Char(128 + (c % 64))>>
    ELSE IF c < 65536
    THEN <<Char(224 + (c \div 4096)), Char(128 + ((c \div 64) % 64)),
           Char(128 + (c % 64))>>
    ELSE <<Char(240 + (c \div 262144)), Char(128 + ((c \div 4096) % 64)),
           Char(128 + ((c \div 64) % 64)), Char(128 + (c % 64))>>

\* encoding='utf-8': the bytes of a str
RECURSIVE encode(_)
encode(text) ==
    IF text = <<>> THEN <<>>
    ELSE (IF IsFloatText(Head(text)) THEN <<Head(text)>> ELSE Utf8(Head(text)[1]))
         \o encode(Tail(text))

\* ['Name', 'MC', 'MP']
HeaderRow == << StrCell(Str(<<"N", "a", "m", "e">>)),
                StrCell(Str(<<"M", "C">>)),
                StrCell(Str(<<"M", "P">>)) >>

\* a tuple of coins_info as the writer sees it
RecordRow(coin_info) ==
    <<StrCell(coin_info[1]), FloatCell(coin_info[2]), FloatCell(coin_info[3])>>

\* What a flush that fails may leave on the disk of the rows it was to
\* write: the first rows, fewer than all, and with torn some bytes, not all,
\* of the row after them.
FailedFlush(rows) ==
    {[disk |-> SubSeq(rows, 1, j), torn |-> b] : j \in 0..(Len(rows) - 1), b \in BOOLEAN}

\* The file object is closed: its buffer reaches the disk, or an OSError
\* is raised and a part of it does.
Closed(f, outcome) ==
    [f EXCEPT !.open = FALSE, !.disk = outcome.disk, !.torn = outcome.torn]

Flushed(rows) == [disk |-> rows, torn |-> FALSE]

\* What a close that fails may leave: its flush has failed, or the flush has
\* written every row and the release of the descriptor has failed.
FailedClose(rows) == FailedFlush(rows) \cup {Flushed(rows)}

\* with open(filename, mode='w', ...) as file
OpenFile ==
    /\ pc = "open"
    /\ \/ /\ file' = [exists |-> TRUE, open |-> TRUE, written |-> <<>>,
                      disk |-> <<>>, torn |-> FALSE]
          /\ pc' = "header"
          /\ UNCHANGED fault
       \/ /\ Raise("OSError")
          /\ UNCHANGED file
    /\ UNCHANGED <<session, i, events, html_text, get_content_vars>>

\* writer.writerow(['Name', 'MC', 'MP']): the row stays in the buffer of the
\* file object, which is empty before it
WriteHeader ==
    /\ pc = "header"
    /\ file' = [file EXCEPT !.written = Append(@, encode(writerow(HeaderRow)))]
    /\ pc' = "rows"
    /\ idx' = 0
    /\ UNCHANGED <<session, i, events, html_text, coin_name_tags,
                   capitalization_tags, total_market_cap, coins_info, fault>>

\* writer.writerow(coin_info) for the str that the writer makes of the row.
\* The row goes to the buffer of the file object; when the buffer is flushed
\* and the flush fails the write raises OSError.  A row that cannot be
\* encoded raises UnicodeEncodeError and is not written.  An exception
\* leaves the with block, which closes the file: the rows of the buffer are
\* flushed, and if that fails the OSError of the close is the exception of
\* the run.
Write(text) ==
    IF Unencodable(text)
    THEN \/ /\ Raise("UnicodeEncodeError")
            /\ file' = Closed(file, Flushed(file.written))
            /\ UNCHANGED idx
         \/ /\ Raise("OSError")
            /\ \E o \in FailedClose(file.written) : file' = Closed(file, o)
            /\ UNCHANGED idx
    ELSE \/ /\ file' = [file EXCEPT !.written = Append(@, encode(text))]
            /\ idx' = idx + 1
            /\ UNCHANGED <<pc, fault>>
         \/ /\ Raise("OSError")
            /\ \E o \in FailedFlush(Append(file.written, encode(text))) :
                   file' = Closed(file, o)
            /\ UNCHANGED idx

\* for coin_info in coins_info: writer.writerow(coin_info)
WriteRow ==
    /\ pc = "rows"
    /\ idx < Len(coins_info)
    /\ Write(writerow(RecordRow(coins_info[idx + 1])))
    /\ UNCHANGED <<session, i, events, html_text, coin_name_tags,
                   capitalization_tags, total_market_cap, coins_info>>

\* the with block ends: the file is closed, which flushes the buffer, and
\* write_cmc_top returns; a close that fails raises OSError
CloseFile ==
    /\ pc = "rows"
    /\ idx >= Len(coins_info)
    /\ \/ /\ file' = Closed(file, Flushed(file.written))
          /\ pc' = "done"
          /\ UNCHANGED fault
       \/ /\ Raise("OSError")
          /\ \E o \in FailedClose(file.written) : file' = Closed(file, o)
    /\ UNCHANGED <<session, i, events, html_text, get_content_vars>>

---------------------------------------------------------------------------

Next ==
    \/ Launch \/ Navigate \/ Scroll \/ Sleep \/ Capture \/ Quit
    \/ FindTags \/ SumStep \/ SumDone \/ PairStep \/ Return
    \/ OpenFile \/ WriteHeader \/ WriteRow \/ CloseFile

Spec == Init /\ [][Next]_vars


---------------------------------------------------------------------------
(* What the properties are stated with *)

N == Len(html_text.names)

M == Len(html_text.caps)

\* get_content has returned its list to write_cmc_top.
Returned ==
    \/ pc \in {"open", "header", "rows", "done"}
    \/ pc = "fault" /\ fault \in {"OSError", "UnicodeEncodeError"}

\* get_html has ended, by its return or by an exception.
FetchEnded == pc \notin {"start", "get", "scroll", "sleep", "quit"}

\* The double (-1)^s * m * 2^e, m odd and given by its limbs.
Double(s, m, e) == [k |-> "fin", s |-> s, m |-> m, e |-> e]

\* The text of a capitalization tag without its "$" and ",", the rest in order.
Cleaned(text) == SelectSeq(Strip(text), LAMBDA c : c \notin {36, 44})

Amount(text) == Float(Cleaned(text))

AllParse(caps) == \A k \in 1..Len(caps) : Amount(caps[k]).ok

\* The amounts added one after the other to 0, each sum rounded.
RECURSIVE SumAmounts(_)
SumAmounts(caps) ==
    IF caps = <<>> THEN FZero(0)
    ELSE FAdd(SumAmounts(SubSeq(caps, 1, Len(caps) - 1)), Amount(caps[Len(caps)]).val)

\* The sum of one field (2: the amount, 3: the percentage) over the records,
\* added one after the other to 0.
RECURSIVE SumField(_, _)
SumField(recs, f) ==
    IF recs = <<>> THEN FZero(0)
    ELSE FAdd(SumField(SubSeq(recs, 1, Len(recs) - 1), f), recs[Len(recs)][f])

Percent(amount, total) == FMul(FDiv(amount, total), Double(0, <<25>>, 2))

\* A double below 2^-30 in magnitude.
Tiny(d) == d.k = "fin" /\ (d.m = <<>> \/ BBitLen(d.m) + d.e <= 0 - 30)

\* Two doubles that differ by less than 2^-30.
Close(a, b) == a.k = "fin" /\ b.k = "fin" /\ Tiny(FAdd(a, FNeg(b)))

\* Amounts that are finite and not negative.
NotNegative(caps) ==
    /\ AllParse(caps)
    /\ \A k \in 1..Len(caps) :
          Amount(caps[k]).val.k = "fin" /\ Amount(caps[k]).val.s = 0

\* Amounts that are finite and not negative, with a sum, as the code computes
\* it, that is finite and not zero.
Ordinary(caps) ==
    /\ NotNegative(caps)
    /\ SumAmounts(caps).k = "fin"
    /\ ~FIsZero(SumAmounts(caps))

\* "9e307", "9e307"
Overflowing == << <<57, 101, 51, 48, 55>>, <<57, 101, 51, 48, 55>> >>

IsPrefix(a, b) == Len(a) <= Len(b) /\ a = SubSeq(b, 1, Len(a))

RECURSIVE Cycles(_)
Cycles(n) == IF n = 0 THEN <<>> ELSE <<"scroll", "sleep">> \o Cycles(n - 1)

\* launch, navigation, ten times scroll then sleep, capture, termination
ExpectedEvents == <<"launch", "get">> \o Cycles(10) \o <<"page_source", "quit">>

\* "$1,234,567.89"
Example == <<36, 49, 44, 50, 51, 52, 44, 53, 54, 55, 46, 56, 57>>

\* "1234567.89"
ExampleCleaned == <<49, 50, 51, 52, 53, 54, 55, 46, 56, 57>>

\* "0.1", "0.2", "-0.3"
Cancelling == << <<48, 46, 49>>, <<48, 46, 50>>, <<45, 48, 46, 51>> >>

\* "1e16", "0.1", "-1e16"
Absorbing == << <<49, 101, 49, 54>>, <<48, 46, 49>>, <<45, 49, 101, 49, 54>> >>

---------------------------------------------------------------------------
(* The file as a reader of CSV with the delimiter ";" takes it *)

\* the bytes of Name;MC;MP and the end of the row
HeaderBytes ==
    << <<78>>, <<97>>, <<109>>, <<101>>, <<59>>, <<77>>, <<67>>, <<59>>,
       <<77>>, <<80>>, <<13>>, <<10>> >>

RECURSIVE Flat(_)
Flat(rows) == IF rows = <<>> THEN <<>> ELSE Head(rows) \o Flat(Tail(rows))

\* Position k of the bytes is outside a quoted field: an even number of
\* quote characters comes before it.
Outside(b, k) == Cardinality({j \in 1..(k - 1) : b[j] = <<34>>}) % 2 = 0

\* The positions where a line of the text ends: a line feed, or a carriage
\* return that no line feed follows.
LineEnds(b) ==
    {k \in 1..Len(b) :
        \/ b[k] = <<10>>
        \/ b[k] = <<13>> /\ ~(k < Len(b) /\ b[k + 1] = <<10>>)}

\* The positions where a row ends: the ends of line outside quoted fields.
RowEnds(b) == {k \in LineEnds(b) : Outside(b, k)}

\* The positions of the delimiters that separate the fields of a row.
FieldEnds(row) == {k \in 1..Len(row) : row[k] = <<59>> /\ Outside(row, k)}

\* A quoted field without its doubled quote characters.
RECURSIVE Undouble(_)
Undouble(f) ==
    IF f = <<>> THEN <<>>
    ELSE IF Head(f) = <<34>> THEN <<Head(f)>> \o Undouble(SubSeq(f, 3, Len(f)))
    ELSE <<Head(f)>> \o Undouble(Tail(f))

Unquote(f) ==
    IF f # <<>> /\ f[1] = <<34>> THEN Undouble(SubSeq(f, 2, Len(f) - 1)) ELSE f

\* The code points of bytes of UTF-8.
RECURSIVE Decode(_)
Decode(b) ==
    IF b = <<>> THEN <<>>
    ELSE IF b[1][1] < 128 THEN <<b[1][1]>> \o Decode(Tail(b))
    ELSE IF b[1][1] < 224
    THEN <<(b[1][1] - 192) * 64 + (b[2][1] - 128)>> \o Decode(SubSeq(b, 3, Len(b)))
    ELSE IF b[1][1] < 240
    THEN <<(b[1][1] - 224) * 4096 + (b[2][1] - 128) * 64 + (b[3][1] - 128)>>
         \o Decode(SubSeq(b, 4, Len(b)))
    ELSE <<(b[1][1] - 240) * 262144 + (b[2][1] - 128) * 4096
            + (b[3][1] - 128) * 64 + (b[4][1] - 128)>>
         \o Decode(SubSeq(b, 5, Len(b)))

\* The row of the file is the row of this record: it ends where it is
\* terminated and nowhere before, it has three fields, the first reads as the
\* name, the others are the texts of the amount and of the percentage.
IsRowOf(row, rec) ==
    /\ RowEnds(row) = {Len(row)}
    /\ Len(row) >= 2 /\ row[Len(row) - 1] = <<13>> /\ row[Len(row)] = <<10>>
    /\ Outside(row, Len(row) + 1)
    /\ Cardinality(FieldEnds(row)) = 2
    /\ \E p, q \in FieldEnds(row) :
          /\ p < q
          /\ Decode(Unquote(SubSeq(row, 1, p - 1))) = rec[1]
          /\ SubSeq(row, p + 1, q - 1) = <<FloatText(rec[2])>>
          /\ SubSeq(row, q + 1, Len(row) - 2) = <<FloatText(rec[3])>>

\* The rows are the header and the rows of the first records, in order.
RowsOfRecords(rows) ==
    /\ Len(rows) <= Len(coins_info) + 1
    /\ rows # <<>> => rows[1] = HeaderBytes
    /\ \A k \in 2..Len(rows) : IsRowOf(rows[k], coins_info[k - 1])

\* The line breaks inside the names of the records.
NameBreaks ==
    UNION {{<<k, j>> : j \in {j \in 1..Len(coins_info[k][1]) :
                \/ coins_info[k][1][j] = 10
                \/ /\ coins_info[k][1][j] = 13
                   /\ ~(j < Len(coins_info[k][1]) /\ coins_info[k][1][j + 1] = 10)}} :
           k \in 1..Len(coins_info)}

---------------------------------------------------------------------------
(* C1 *)

\* C1, as stated: whatever the two lists and their lengths, the percentages
\* of the records that get_content returns sum to 100, within rounding.
C1_SumIsAlways100 ==
    pc = "open" => Close(SumField(coins_info, 3), Double(0, <<25>>, 2))

\* C1, amended, of the list that get_content returns.  With no pair of a
\* name and a capitalization there is no record: the percentages sum to 0,
\* not to 100.  With at least one record, of amounts that are finite and not
\* negative and whose total, as the code computes it, is finite and not
\* zero, the percentages sum, within rounding (less than 2^-30 for the lists
\* checked), to 100 times the share that the paired
\* amounts have in the total of all capitalization amounts; this is 100
\* within rounding, and not always 100 exactly, when no capitalization is
\* left unpaired (no more capitalizations than names).  Amounts that are
\* finite and not negative and whose total overflows to infinity have the
\* percentages 0, which sum to 0: so do 9e307 and 9e307.  With amounts of both
\* signs the rounding of the total decides: the amounts 0.1, 0.2, -0.3 have
\* the total 2^-54 and the percentages 5 * 2^55, 5 * 2^56, -15 * 2^55, which
\* sum to 0.
C1_SumOfPercentages ==
    pc = "open" =>
        /\ Min(N, M) = 0 =>
             /\ coins_info = <<>>
             /\ SumField(coins_info, 3) = FZero(0)
             /\ ~Close(SumField(coins_info, 3), Double(0, <<25>>, 2))
        /\ Min(N, M) > 0 => coins_info # <<>>
        /\ coins_info # <<>> /\ Ordinary(html_text.caps) =>
             /\ Close(SumField(coins_info, 3),
                      Percent(SumField(coins_info, 2), SumAmounts(html_text.caps)))
             /\ M <= N => Close(SumField(coins_info, 3), Double(0, <<25>>, 2))
        /\ ( /\ coins_info # <<>>
             /\ NotNegative(html_text.caps)
             /\ SumAmounts(html_text.caps).k = "inf" ) =>
             /\ \A k \in 1..Len(coins_info) : coins_info[k][3] = FZero(0)
             /\ SumField(coins_info, 3) = FZero(0)
        /\ html_text.caps = Overflowing /\ N = 2 =>
             /\ total_market_cap = FInf(0)
             /\ Len(coins_info) = 2
             /\ SumField(coins_info, 3) = FZero(0)
        /\ html_text.caps = Cancelling /\ N = 3 =>
             /\ total_market_cap = Double(0, <<1>>, 0 - 54)
             /\ [k \in 1..3 |-> coins_info[k][3]]
                  = <<Double(0, <<5>>, 55), Double(0, <<5>>, 56), Double(1, <<15>>, 55)>>
             /\ SumField(coins_info, 3) = FZero(0)

C1_Witness ==
    /\ pc = "open"
    /\ M <= N
    /\ Len(coins_info) = 2
    /\ Ordinary(html_text.caps)
    /\ SumField(coins_info, 3) = Double(0, <<32767, 32767, 32767, 199>>, 0 - 46)
    /\ Close(SumField(coins_info, 3), Double(0, <<25>>, 2))

---------------------------------------------------------------------------
(* C2 *)

\* C2: from N name tags and N capitalization tags get_content returns exactly
\* N records, the k-th holding the (stripped) text of the k-th name tag and the
\* amount of the k-th capitalization tag.
C2_RecordsInSourceOrder ==
    pc = "open" /\ N = M =>
        /\ Len(coins_info) = N
        /\ \A k \in 1..Len(coins_info) :
             /\ coins_info[k][1] = Strip(html_text.names[k])
             /\ coins_info[k][2] = Amount(html_text.caps[k]).val

C2_Witness ==
    /\ pc = "open"
    /\ N = 3 /\ M = 3
    /\ Len(coins_info) = 3
    /\ coins_info[1][1] = <<66, 84, 67>>
    /\ coins_info[2][1] = <<69, 84, 72>>
    /\ coins_info[1][2] = Double(0, <<25>>, 2)
    /\ coins_info[3][2] = Double(0, <<75>>, 3)

---------------------------------------------------------------------------
(* C3 *)

\* C3: when write_cmc_top has completed, the first row of the file is exactly
\* Name;MC;MP, one row per record follows in the order of the records, each
\* reading as the name, the amount and the percentage of its record, and the
\* file has one row more than there are records.  The rows are those of CSV:
\* a name that holds a line break is written in quotes and its row has as
\* many lines more as the name has line breaks.
C3_FileRows ==
    pc = "done" =>
        /\ file.exists /\ ~file.open /\ ~file.torn
        /\ Len(file.disk) = Len(coins_info) + 1
        /\ file.disk[1] = HeaderBytes
        /\ \A k \in 1..Len(coins_info) : IsRowOf(file.disk[k + 1], coins_info[k])
        /\ Cardinality(RowEnds(Flat(file.disk))) = Len(coins_info) + 1
        /\ Cardinality(LineEnds(Flat(file.disk)))
             = Len(coins_info) + 1 + Cardinality(NameBreaks)

C3_Witness ==
    /\ pc = "done"
    /\ Len(coins_info) = 2
    /\ coins_info[1][1] = <<65, 59, 66>>
    /\ coins_info[2][1] = <<120, 10, 121>>
    /\ Cardinality(RowEnds(Flat(file.disk))) = 3
    /\ Cardinality(LineEnds(Flat(file.disk))) = 4

---------------------------------------------------------------------------
(* C4 *)

\* C4: the percentage of every record is its own amount divided by the sum of
\* all capitalization amounts of the page, times 100, in the arithmetic of
\* doubles; the amounts 100, 300, 600 with three names give 10, 30, 60.
C4_PercentageOfTotal ==
    /\ pc \in {"pair", "open"} /\ coins_info # <<>> =>
         /\ AllParse(html_text.caps)
         /\ ~FIsZero(SumAmounts(html_text.caps))
         /\ \A k \in 1..Len(coins_info) :
              coins_info[k][3] = Percent(coins_info[k][2], SumAmounts(html_text.caps))
    /\ ( /\ Len(coins_info) = 3
         /\ M = 3
         /\ [k \in 1..3 |-> coins_info[k][2]]
              = <<Double(0, <<25>>, 2), Double(0, <<75>>, 2), Double(0, <<75>>, 3)>> )
       => [k \in 1..3 |-> coins_info[k][3]]
              = <<Double(0, <<5>>, 1), Double(0, <<15>>, 1), Double(0, <<15>>, 2)>>

C4_Witness ==
    /\ Len(coins_info) = 3
    /\ M = 3
    /\ [k \in 1..3 |-> coins_info[k][2]]
         = <<Double(0, <<25>>, 2), Double(0, <<75>>, 2), Double(0, <<75>>, 3)>>
    /\ [k \in 1..3 |-> coins_info[k][3]]
         = <<Double(0, <<5>>, 1), Double(0, <<15>>, 1), Double(0, <<15>>, 2)>>

---------------------------------------------------------------------------
(* C5 *)

\* C5, as stated: a run that has faulted leaves no output file with fewer
\* rows than the header and all the records.
C5_NoPartialOutput ==
    pc = "fault" /\ file.exists =>
        ~file.torn /\ Len(file.disk) >= Len(coins_info) + 1

\* C5, amended: a fault at any step ends the run in a faulted state from which
\* no step is taken (no retry), and a run that completes has not faulted.  A
\* fault of the fetch, of the extraction or of the file's opening leaves no
\* output file.  A fault while a record row is written or the file is closed
\* leaves the file closed with the first rows only, in order, and possibly
\* some bytes of the row after them: a row that UTF-8 cannot encode leaves
\* the header and the rows before it; a write or a close that fails leaves
\* any number of the rows written before it, none and all included.
C5_FailFast ==
    /\ fault # "none" <=> pc = "fault"
    /\ pc = "fault" => ~ENABLED Next
    /\ pc = "fault" /\ fault \notin {"OSError", "UnicodeEncodeError"} => ~file.exists
    /\ pc = "fault" /\ file.exists =>
         /\ ~file.open
         /\ RowsOfRecords(file.disk)
         /\ file.torn => Len(file.disk) <= Len(coins_info)
    /\ fault = "UnicodeEncodeError" =>
         /\ file.exists /\ ~file.torn
         /\ Len(file.disk) = idx + 1
         /\ idx < Len(coins_info)
         /\ \E j \in 1..Len(coins_info[idx + 1][1]) :
               coins_info[idx + 1][1][j] \in 55296..57343

C5_Witness ==
    /\ pc = "fault"
    /\ fault = "OSError"
    /\ file.exists
    /\ Len(coins_info) = 3
    /\ Len(file.disk) = 2
    /\ file.torn

---------------------------------------------------------------------------
(* C6 *)

\* C6: the cleaning removes every "$" and every "," from the stripped text and
\* keeps the other characters in order, so that "$1,234,567.89" parses to
\* 1234567.89, the double nearest to 123456789/100; the amount of a record and
\* the amount added to the total are the value of the same cleaned text.  (The
\* example is a fact of the operators, stated of the first state; the texts of
\* a page are compared as soon as the page is captured.)
C6_Cleaning ==
    /\ pc = "start" =>
         /\ cap_str(Example) = ExampleCleaned
         /\ coin_cap_str(Example) = ExampleCleaned
         /\ Float(ExampleCleaned)
              = [ok |-> TRUE, val |-> Double(0, <<2621, 18350, 23071, 150>>, 0 - 32)]
         /\ Float(ExampleCleaned).val = RoundRat(0, <<19733, 3767>>, <<100>>)
         /\ cap_str(<<13, 10, 32, 36, 51, 48, 48, 160>>) = <<51, 48, 48>>
         /\ cap_str(<<36, 28, 55>>) = <<28, 55>>
    /\ pc = "quit" =>
         \A k \in 1..M :
            /\ cap_str(html_text.caps[k]) = Cleaned(html_text.caps[k])
            /\ coin_cap_str(html_text.caps[k]) = Cleaned(html_text.caps[k])
    /\ pc = "sum" => total_market_cap = SumAmounts(SubSeq(html_text.caps, 1, idx))
    /\ pc \in {"pair", "open"} =>
         /\ total_market_cap = SumAmounts(html_text.caps)
         /\ \A k \in 1..Len(coins_info) :
              coins_info[k][2] = Amount(html_text.caps[k]).val

C6_Witness ==
    /\ pc = "open"
    /\ Len(coins_info) = 2
    /\ html_text.caps[2] = <<36, 49, 44, 48, 48, 48, 44, 48, 48, 48, 46, 53>>
    /\ coins_info[2][2] = Double(0, <<1153, 61>>, 0 - 1)
    /\ total_market_cap = FAdd(coins_info[1][2], coins_info[2][2])

---------------------------------------------------------------------------
(* C7 *)

\* C7: once get_html has ended, by its return or by a fault of the navigation,
\* of a scroll or of the capture, the session it launched is not open any more.
C7_SessionReleased ==
    FetchEnded => session # "open"

---------------------------------------------------------------------------
(* C8 *)

\* C8: the calls of get_html are made in the order launch, navigation, ten
\* cycles of one scroll then one sleep, capture, termination; the markup is
\* captured after the tenth cycle and while the session is open.
C8_FetchOrder ==
    /\ IsPrefix(events, ExpectedEvents)
    /\ pc = "quit" =>
         /\ session = "open"
         /\ events = SubSeq(ExpectedEvents, 1, Len(ExpectedEvents) - 1)
    /\ session = "closed" => events = ExpectedEvents
    /\ FetchEnded /\ pc # "fault" => session = "closed"

C8_Witness ==
    /\ pc = "get_content"
    /\ session = "closed"
    /\ events = ExpectedEvents
    /\ Len(events) = 24

---------------------------------------------------------------------------
(* C9 *)

\* C9: with N names and M capitalizations, N # M, get_content returns
\* min(N, M) records pairing the k-th name with the k-th capitalization, and
\* the total it divides by is the sum of all M amounts; the mismatch raises
\* nothing: the extraction faults only on a text that does not parse, or on a
\* zero total with at least one pair.
C9_MismatchedLengths ==
    /\ pc = "open" /\ N # M =>
         /\ Len(coins_info) = Min(N, M)
         /\ \A k \in 1..Len(coins_info) :
              /\ coins_info[k][1] = Strip(html_text.names[k])
              /\ coins_info[k][2] = Amount(html_text.caps[k]).val
              /\ coins_info[k][3] = Percent(coins_info[k][2], total_market_cap)
         /\ total_market_cap = SumAmounts(html_text.caps)
    /\ html_text.tbody /\ N # M /\ ~Returned =>
         /\ fault \in {"none", "ValueError", "ZeroDivisionError"}
         /\ fault = "ValueError" => ~AllParse(html_text.caps)
         /\ fault = "ZeroDivisionError" =>
              FIsZero(SumAmounts(html_text.caps)) /\ Min(N, M) >= 1

C9_Witness ==
    /\ pc = "open"
    /\ M > N
    /\ Len(coins_info) = N
    /\ N >= 2
    /\ total_market_cap # SumField(coins_info, 2)

---------------------------------------------------------------------------
(* C10 *)

\* The amounts all parse, their sum as the code computes it is zero, and
\* there is a pair.
ZeroTotal ==
    /\ html_text.tbody
    /\ Min(N, M) >= 1
    /\ AllParse(html_text.caps)
    /\ FIsZero(SumAmounts(html_text.caps))

\* C10: the file exists only once fetch and extraction have both completed;
\* when the amounts sum to zero (the sum of doubles that the code computes:
\* 1e16, 0.1, -1e16 sum to zero, 0.1, 0.2, -0.3 do not) and there is at
\* least one pair, the run ends on the division by zero with no file created;
\* when both lists are empty nothing is divided, and a completed run leaves a
\* file of the header alone.
C10_FileAfterExtraction ==
    /\ file.exists => Returned /\ session = "closed"
    /\ pc = "open" => ~ZeroTotal
    /\ pc = "fault" /\ html_text.tbody /\ ~Returned =>
         /\ ZeroTotal <=> fault = "ZeroDivisionError"
         /\ ~file.exists
    /\ html_text.caps = Absorbing /\ N = 3 /\ pc \notin {"quit", "get_content", "sum"} =>
         /\ total_market_cap = FZero(0)
         /\ pc = "fault" => fault = "ZeroDivisionError" /\ coins_info = <<>>
         /\ pc \in {"pair", "fault"}
    /\ pc = "quit" /\ html_text.caps = Cancelling => ~ZeroTotal
    /\ html_text.tbody /\ N = 0 /\ M = 0 =>
         /\ fault \in {"none", "OSError"}
         /\ coins_info = <<>>
         /\ pc = "done" => file.disk = <<HeaderBytes>>

C10_Witness ==
    /\ pc = "fault"
    /\ fault = "ZeroDivisionError"
    /\ html_text.caps = Absorbing
    /\ N = 3
    /\ ~file.exists

===========================================================================
